---- MODULE Spec2Model ----
(***************************************************************************)
(* Model of the Mixture-of-Experts router (app/services/router.py):        *)
(* the keyword classifier route_request, the circuit breaker               *)
(* (record_failure / record_success / is_quarantined), the backup-chain    *)
(* substitution get_available_model and the quorum selection               *)
(* select_experts_for_query.                                               *)
(***************************************************************************)
EXTENDS Integers, Sequences, FiniteSets, TLC

VARIABLES
    circuit_breaker_threshold, \* MoERouter.circuit_breaker_threshold
    failure_counts,            \* MoERouter.failure_counts : dict model -> int
    quarantined_models,        \* MoERouter.quarantined_models : set
    streak,                    \* history: record_failure(e) calls since the last
                               \* record_success(e) (or since construction)
    call                       \* the last completed call: operation, arguments, result

vars == <<circuit_breaker_threshold, failure_counts, quarantined_models, streak, call>>

health == <<circuit_breaker_threshold, failure_counts, quarantined_models>>

(***************************************************************************)
(* Bounds of the exploration.                                              *)
(***************************************************************************)
\* thresholds explored: 1..MaxThreshold
MaxThreshold == 2
\* record_failure is explored while fewer than this many failures are recorded in total
MaxOutstanding == 3
\* select_experts_for_query is explored for k in 0..MaxK
MaxK == 10
\* calculate_coverage_score is explored on sequences of at most this many responses
MaxResponses == 4
\* aggregate_expert_responses is explored on mappings of at most this many entries
MaxEntries == 3

(***************************************************************************)
(* Settings: the expert identifiers (app/core/config.py).                  *)
(***************************************************************************)
reasoning_model == "deepseek-v3.1:671b-cloud"
fallback_model == "gpt-oss:20b-cloud"
enterprise_model == "gpt-oss:120b-cloud"
math_tool_model == "kimi-k2:1t-cloud"
code_model == "qwen3-coder:480b-cloud"
aggregator_model == "glm-4.6:cloud"
cost_code_model == "minimax-m2:cloud"
vision_model == "qwen3-vl:235b-cloud"
vision_thinking_model == "qwen3-vl:235b-instruct-cloud"

\* MoERouter.get_all_expert_models: the catalog in its fixed enumeration order
get_all_expert_models ==
    << reasoning_model, fallback_model, enterprise_model, math_tool_model, code_model,
       aggregator_model, cost_code_model, vision_model, vision_thinking_model >>

Range(s) == { s[i] : i \in DOMAIN s }

Experts == Range(get_all_expert_models)

\* identifiers that are not in the registry: a name no expert has, and the
\* name of an expert in another case
UnknownModels == { "unknown-model:latest", "GPT-OSS:120B-CLOUD" }

\* the identifiers the health operations and the queries are called with
Identifiers == Experts \cup UnknownModels

\* MoERouter.backup_chain: primary -> [first_backup, second_backup]
backup_chain ==
    [ m \in Experts |->
        CASE m = reasoning_model -> << enterprise_model, fallback_model >>
          [] m = fallback_model -> << enterprise_model >>
          [] m = enterprise_model -> << reasoning_model, fallback_model >>
          [] m = math_tool_model -> << aggregator_model, enterprise_model >>
          [] m = code_model -> << cost_code_model, fallback_model >>
          [] m = aggregator_model -> << reasoning_model, enterprise_model >>
          [] m = cost_code_model -> << fallback_model >>
          [] m = vision_model -> << vision_thinking_model, fallback_model >>
          [] m = vision_thinking_model -> << vision_model, fallback_model >> ]

\* variant: an identifier without a chain of its own gets the default chain
get_backup_models_DefaultChain(primary_model) ==
    IF primary_model \in DOMAIN backup_chain THEN backup_chain[primary_model]
    ELSE << fallback_model >>

\* MoERouter.get_backup_models: backup_chain.get(primary_model, [])
get_backup_models(primary_model) ==
    IF primary_model \in DOMAIN backup_chain THEN backup_chain[primary_model] ELSE << >>

(***************************************************************************)
(* Text: str.lower() and the substring test `keyword in lower_message`.    *)
(***************************************************************************)
UpperCase == "ABCDEFGHIJKLMNOPQRSTUVWXYZ"
LowerCase == "abcdefghijklmnopqrstuvwxyz"

\* str.lower() on one character: the table of the upper-case letters
LowerMap ==
    [ c \in { SubSeq(UpperCase, i, i) : i \in 1..Len(UpperCase) } |->
        LET i == CHOOSE j \in 1..Len(UpperCase) : SubSeq(UpperCase, j, j) = c
        IN SubSeq(LowerCase, i, i) ]

LowerChar(c) == IF c \in DOMAIN LowerMap THEN LowerMap[c] ELSE c

\* str.lower() on the characters i..j of s (by halves, which keeps the
\* evaluation of a long text shallow)
RECURSIVE LowerRange(_, _, _)
LowerRange(s, i, j) ==
    IF i > j THEN ""
    ELSE IF i = j THEN LowerChar(SubSeq(s, i, i))
         ELSE LowerRange(s, i, (i + j) \div 2) \o LowerRange(s, (i + j) \div 2 + 1, j)

Lower(s) == LowerRange(s, 1, Len(s))

\* `keyword in text`: substring containment
Contains(text, keyword) ==
    \E i \in 1..(Len(text) - Len(keyword) + 1) :
        SubSeq(text, i, i + Len(keyword) - 1) = keyword

\* any(keyword in text for keyword in keywords)
AnyKeyword(text, keywords) ==
    \E j \in DOMAIN keywords : Contains(text, keywords[j])

(***************************************************************************)
(* Routing keyword configuration (class attributes of MoERouter).          *)
(***************************************************************************)
CODE_KEYWORDS ==
    << "code", "class", "programming", "debug", "implement",
       "script", "bug", "error", "compile", "syntax", "refactor", "test" >>
SIMPLE_CODE_KEYWORDS == << "simple", "basic", "quick", "small" >>
MATH_TOOL_KEYWORDS ==
    << "math", "calculate", "equation", "solve", "tool", "function call",
       "agent", "autonomous", "workflow", "integrate", "api", "invoke" >>
REASONING_KEYWORDS ==
    << "analyze", "reasoning", "why", "complex", "detailed", "explain in depth",
       "comprehensive", "thorough", "trace", "step-by-step", "think" >>
ENTERPRISE_KEYWORDS ==
    << "enterprise", "production", "critical", "important", "detailed analysis" >>
AGGREGATION_KEYWORDS ==
    << "summarize", "combine", "aggregate", "synthesize", "merge", "consolidate" >>
RAG_KEYWORDS ==
    << "search", "find", "lookup", "retrieve", "document", "knowledge base" >>

(***************************************************************************)
(* Requests.  A message is [role, content]; a content is a str, a list of  *)
(* typed parts, or None; a part is [type, text].                           *)
(***************************************************************************)
StrContent(text) == [kind |-> "str", text |-> text, items |-> << >>]
ListContent(items) == [kind |-> "list", text |-> "", items |-> items]
NoneContent == [kind |-> "none", text |-> "", items |-> << >>]
TextPart(text) == [type |-> "text", text |-> text]
ImagePart == [type |-> "image_url", text |-> ""]
Message(role, content) == [role |-> role, content |-> content]

\* variant: the first message with role "user" instead of the most recent one
LastUserIndex_First(messages) ==
    IF \E i \in DOMAIN messages : messages[i].role = "user"
    THEN CHOOSE i \in DOMAIN messages :
            /\ messages[i].role = "user"
            /\ \A j \in DOMAIN messages : messages[j].role = "user" => i <= j
    ELSE 0

\* index of the most recent message with role "user", 0 if there is none:
\* `for msg in reversed(messages): if msg.get("role") == "user": ... break`
LastUserIndex(messages) ==
    IF \E i \in DOMAIN messages : messages[i].role = "user"
    THEN CHOOSE i \in DOMAIN messages :
            /\ messages[i].role = "user"
            /\ \A j \in DOMAIN messages : messages[j].role = "user" => j <= i
    ELSE 0

\* `for item in content:` from item i on, with the values last_message and
\* has_images have so far; the result is their pair after the loop
RECURSIVE ScanItems(_, _, _, _)
ScanItems(items, i, last_message, has_images) ==
    IF i > Len(items) THEN << last_message, has_images >>
    ELSE IF items[i].type = "text"
         THEN ScanItems(items, i + 1, items[i].text, has_images)
         ELSE IF items[i].type = "image_url"
              THEN ScanItems(items, i + 1, last_message, TRUE)
              ELSE ScanItems(items, i + 1, last_message, has_images)

\* variant: without a user turn, the last turn of any role is read
ExtractLastUser_AnyRole(messages) ==
    LET i == IF LastUserIndex(messages) = 0 THEN Len(messages)
             ELSE LastUserIndex(messages) IN
    IF i = 0 THEN << "", FALSE >>
    ELSE LET content == messages[i].content IN
         IF content.kind = "str" THEN << content.text, FALSE >>
         ELSE IF content.kind = "list" THEN ScanItems(content.items, 1, "", FALSE)
              ELSE << "", FALSE >>

\* route_request, lines 132-149: << last_message, has_images >>
ExtractLastUser(messages) ==
    LET i == LastUserIndex(messages) IN
    IF i = 0 THEN << "", FALSE >>
    ELSE LET content == messages[i].content IN
         IF content.kind = "str" THEN << content.text, FALSE >>
         ELSE IF content.kind = "list" THEN ScanItems(content.items, 1, "", FALSE)
              ELSE << "", FALSE >>

\* variant: only the reasoning keywords select the vision+thinking model
VisionBranch_ReasoningOnly(lower_message) ==
    IF AnyKeyword(lower_message, REASONING_KEYWORDS)
    THEN << vision_thinking_model, FALSE >>
    ELSE << vision_model, FALSE >>

\* route_request, priority 1 (has_images holds): the vision models
VisionBranch(lower_message) ==
    IF AnyKeyword(lower_message, REASONING_KEYWORDS \o MATH_TOOL_KEYWORDS)
    THEN << vision_thinking_model, FALSE >>
    ELSE << vision_model, FALSE >>

\* variant: the caller's flag is passed through
CodeBranch_PassThrough(lower_message, use_rag) ==
    IF AnyKeyword(lower_message, SIMPLE_CODE_KEYWORDS)
    THEN << cost_code_model, use_rag >>
    ELSE << code_model, use_rag >>

\* route_request, priority 2 (a code keyword matched): the code models; the
\* caller's flag use_rag is not used
CodeBranch(lower_message, use_rag) ==
    IF AnyKeyword(lower_message, SIMPLE_CODE_KEYWORDS)
    THEN << cost_code_model, FALSE >>
    ELSE << code_model, FALSE >>

\* variant: the reasoning keywords are tested before the math/tool keywords
TextBranches_ReasoningFirst(lower_message, use_rag) ==
    IF AnyKeyword(lower_message, REASONING_KEYWORDS)
    THEN << reasoning_model, use_rag >>
    ELSE IF AnyKeyword(lower_message, MATH_TOOL_KEYWORDS)
    THEN << math_tool_model, use_rag >>
    ELSE IF AnyKeyword(lower_message, ENTERPRISE_KEYWORDS)
    THEN << enterprise_model, use_rag >>
    ELSE IF AnyKeyword(lower_message, AGGREGATION_KEYWORDS)
    THEN << aggregator_model, use_rag >>
    ELSE IF AnyKeyword(lower_message, RAG_KEYWORDS)
    THEN << fallback_model, TRUE >>
    ELSE << fallback_model, use_rag >>

\* variant: the retrieval branch passes the caller's flag through
TextBranches_RetrievalPassThrough(lower_message, use_rag) ==
    IF AnyKeyword(lower_message, MATH_TOOL_KEYWORDS)
    THEN << math_tool_model, use_rag >>
    ELSE IF AnyKeyword(lower_message, REASONING_KEYWORDS)
    THEN << reasoning_model, use_rag >>
    ELSE IF AnyKeyword(lower_message, ENTERPRISE_KEYWORDS)
    THEN << enterprise_model, use_rag >>
    ELSE IF AnyKeyword(lower_message, AGGREGATION_KEYWORDS)
    THEN << aggregator_model, use_rag >>
    ELSE << fallback_model, use_rag >>

\* variant: a retrieval keyword forces the flag in every branch
TextBranches_RetrievalForces(lower_message, use_rag) ==
    LET flag == use_rag \/ AnyKeyword(lower_message, RAG_KEYWORDS) IN
    IF AnyKeyword(lower_message, MATH_TOOL_KEYWORDS)
    THEN << math_tool_model, flag >>
    ELSE IF AnyKeyword(lower_message, REASONING_KEYWORDS)
    THEN << reasoning_model, flag >>
    ELSE IF AnyKeyword(lower_message, ENTERPRISE_KEYWORDS)
    THEN << enterprise_model, flag >>
    ELSE IF AnyKeyword(lower_message, AGGREGATION_KEYWORDS)
    THEN << aggregator_model, flag >>
    ELSE << fallback_model, flag >>

\* route_request, priorities 3 to 7 and the default
TextBranches(lower_message, use_rag) ==
    IF AnyKeyword(lower_message, MATH_TOOL_KEYWORDS)
    THEN << math_tool_model, use_rag >>
    ELSE IF AnyKeyword(lower_message, REASONING_KEYWORDS)
    THEN << reasoning_model, use_rag >>
    ELSE IF AnyKeyword(lower_message, ENTERPRISE_KEYWORDS)
    THEN << enterprise_model, use_rag >>
    ELSE IF AnyKeyword(lower_message, AGGREGATION_KEYWORDS)
    THEN << aggregator_model, use_rag >>
    ELSE IF AnyKeyword(lower_message, RAG_KEYWORDS)
    THEN << fallback_model, TRUE >>
    ELSE << fallback_model, use_rag >>

\* route_request, lines 151-200: the cascade on lower_message and has_images
Cascade(lower_message, has_images, use_rag) ==
    IF has_images THEN VisionBranch(lower_message)
    ELSE IF AnyKeyword(lower_message, CODE_KEYWORDS)
         THEN CodeBranch(lower_message, use_rag)
         ELSE TextBranches(lower_message, use_rag)

\* MoERouter.route_request: the tuple (model_name, use_rag_flag)
route_request(messages, use_rag) ==
    LET extracted == ExtractLastUser(messages) IN
    Cascade(Lower(extracted[1]), extracted[2], use_rag)

(***************************************************************************)
(* The requests explored.  A text is a selection of the phrases of Vocab,  *)
(* in order, separated by single spaces; a shape says which messages carry *)
(* it.                                                                     *)
(***************************************************************************)
Vocab ==
    << "Debug", "quick", "API", "why", "critical", "merge", "knowledge base",
       "hello", "latest" >>

WordIdx == 1..Len(Vocab)

\* the phrases of Vocab with index in S and >= i, joined by " "
RECURSIVE JoinFrom(_, _)
JoinFrom(S, i) ==
    IF i > Len(Vocab) THEN ""
    ELSE IF i \in S
         THEN LET rest == JoinFrom(S, i + 1) IN
              IF rest = "" THEN Vocab[i] ELSE Vocab[i] \o " " \o rest
         ELSE JoinFrom(S, i + 1)

Text(S) == JoinFrom(S, 1)

Odd(S) == { i \in S : i % 2 = 1 }

Shapes == { "str", "image", "parts", "parts_image", "history", "no_user", "none", "empty" }

Request(S, shape) ==
    CASE shape = "str" ->
           << Message("user", StrContent(Text(S))) >>
      [] shape = "image" ->
           << Message("user", ListContent(<< TextPart(Text(S)), ImagePart >>)) >>
      [] shape = "parts" ->
           << Message("user",
                ListContent(<< TextPart(Text(Odd(S))), TextPart(Text(S \ Odd(S))) >>)) >>
      [] shape = "parts_image" ->
           << Message("user",
                ListContent(<< TextPart(Text(Odd(S))), ImagePart,
                               TextPart(Text(S \ Odd(S))) >>)) >>
      [] shape = "history" ->
           << Message("system", StrContent("Debug why")),
              Message("user", ListContent(<< TextPart("solve"), ImagePart >>)),
              Message("assistant", StrContent("merge")),
              Message("user", StrContent(Text(S))),
              Message("assistant", StrContent("lookup API")) >>
      [] shape = "no_user" ->
           << Message("system", StrContent(Text(S))),
              Message("assistant", StrContent(Text(S))) >>
      [] shape = "none" ->
           << Message("user", NoneContent) >>
      [] OTHER -> << >>

(***************************************************************************)
(* Circuit breaker.                                                        *)
(***************************************************************************)
\* dict.get(model, 0) on failure_counts
FailureCount(fc, model) == IF model \in DOMAIN fc THEN fc[model] ELSE 0

\* variant: quarantine only above the threshold
ReachedThreshold_Above(count, threshold) == count > threshold

\* the comparison of record_failure with the threshold
ReachedThreshold(count, threshold) == count >= threshold

\* MoERouter.is_quarantined
is_quarantined(quarantined, model) == model \in quarantined

\* the call record before any call.  words and shape say how the request of a
\* route_request, select_experts_for_query or create_chat_completion call was
\* built (see Request); count_before and quarantined_before are the failure
\* count and the quarantine status the expert of a record_failure,
\* record_success or create_chat_completion call had before it; requested,
\* stream and augmented are request.model, request.stream and whether the
\* prompt was augmented in a create_chat_completion call; arg is the argument
\* of a calculate_coverage_score or aggregate_expert_responses call
NoCall ==
    [op |-> "none", model |-> "", words |-> {}, shape |-> "", use_rag |-> FALSE,
     k |-> 0, ret |-> << >>, count_before |-> 0, quarantined_before |-> FALSE,
     requested |-> "", stream |-> FALSE, augmented |-> FALSE, arg |-> << >>]

\* variant: a lost update, the count is written from a read made before
\* another caller's increment
record_failure_LostUpdate(model) ==
    LET stale == IF FailureCount(failure_counts, model) > 0
                 THEN FailureCount(failure_counts, model) - 1
                 ELSE 0
        count == stale + 1 IN
    /\ failure_counts' =
           [ m \in (DOMAIN failure_counts) \cup {model} |->
               IF m = model THEN count ELSE failure_counts[m] ]
    /\ quarantined_models' =
           IF ReachedThreshold(count, circuit_breaker_threshold)
           THEN quarantined_models \cup {model}
           ELSE quarantined_models
    /\ streak' = [streak EXCEPT ![model] = @ + 1]
    /\ call' = [NoCall EXCEPT !.op = "record_failure", !.model = model,
                              !.count_before = FailureCount(failure_counts, model),
                              !.quarantined_before = model \in quarantined_models]
    /\ UNCHANGED circuit_breaker_threshold

\* variant: the failures of a quarantined expert are not counted
record_failure_Capped(model) ==
    LET count == IF model \in quarantined_models
                 THEN FailureCount(failure_counts, model)
                 ELSE FailureCount(failure_counts, model) + 1 IN
    /\ failure_counts' =
           [ m \in (DOMAIN failure_counts) \cup {model} |->
               IF m = model THEN count ELSE failure_counts[m] ]
    /\ quarantined_models' =
           IF ReachedThreshold(count, circuit_breaker_threshold)
           THEN quarantined_models \cup {model}
           ELSE quarantined_models
    /\ streak' = [streak EXCEPT ![model] = @ + 1]
    /\ call' = [NoCall EXCEPT !.op = "record_failure", !.model = model,
                              !.count_before = FailureCount(failure_counts, model),
                              !.quarantined_before = model \in quarantined_models]
    /\ UNCHANGED circuit_breaker_threshold

\* MoERouter.record_failure
record_failure(model) ==
    LET count == FailureCount(failure_counts, model) + 1 IN
    /\ failure_counts' =
           [ m \in (DOMAIN failure_counts) \cup {model} |->
               IF m = model THEN count ELSE failure_counts[m] ]
    /\ quarantined_models' =
           IF ReachedThreshold(count, circuit_breaker_threshold)
           THEN quarantined_models \cup {model}
           ELSE quarantined_models
    /\ streak' = [streak EXCEPT ![model] = @ + 1]
    /\ call' = [NoCall EXCEPT !.op = "record_failure", !.model = model,
                              !.count_before = FailureCount(failure_counts, model),
                              !.quarantined_before = model \in quarantined_models]
    /\ UNCHANGED circuit_breaker_threshold

\* variant: the counter is reset but the expert stays in the quarantine set
record_success_StillQuarantined(model) ==
    /\ failure_counts' =
           [ m \in (DOMAIN failure_counts) \ {model} |-> failure_counts[m] ]
    /\ streak' = [streak EXCEPT ![model] = 0]
    /\ call' = [NoCall EXCEPT !.op = "record_success", !.model = model,
                              !.count_before = FailureCount(failure_counts, model),
                              !.quarantined_before = model \in quarantined_models]
    /\ UNCHANGED <<circuit_breaker_threshold, quarantined_models>>

\* variant: a success clears the whole quarantine set
record_success_ClearAll(model) ==
    /\ failure_counts' =
           [ m \in (DOMAIN failure_counts) \ {model} |-> failure_counts[m] ]
    /\ quarantined_models' = {}
    /\ streak' = [streak EXCEPT ![model] = 0]
    /\ call' = [NoCall EXCEPT !.op = "record_success", !.model = model,
                              !.count_before = FailureCount(failure_counts, model),
                              !.quarantined_before = model \in quarantined_models]
    /\ UNCHANGED circuit_breaker_threshold

\* variant: the expert leaves the quarantine set but keeps its failure count
record_success_KeepCount(model) ==
    /\ quarantined_models' = quarantined_models \ {model}
    /\ streak' = [streak EXCEPT ![model] = 0]
    /\ call' = [NoCall EXCEPT !.op = "record_success", !.model = model,
                              !.count_before = FailureCount(failure_counts, model),
                              !.quarantined_before = model \in quarantined_models]
    /\ UNCHANGED <<circuit_breaker_threshold, failure_counts>>

\* MoERouter.record_success
record_success(model) ==
    /\ failure_counts' =
           [ m \in (DOMAIN failure_counts) \ {model} |-> failure_counts[m] ]
    /\ quarantined_models' = quarantined_models \ {model}
    /\ streak' = [streak EXCEPT ![model] = 0]
    /\ call' = [NoCall EXCEPT !.op = "record_success", !.model = model,
                              !.count_before = FailureCount(failure_counts, model),
                              !.quarantined_before = model \in quarantined_models]
    /\ UNCHANGED circuit_breaker_threshold

\* a call of MoERouter.is_quarantined
IsQuarantined(model) ==
    /\ call' = [NoCall EXCEPT !.op = "is_quarantined", !.model = model,
                              !.ret = is_quarantined(quarantined_models, model)]
    /\ UNCHANGED <<health, streak>>

(***************************************************************************)
(* Substitution and selection.                                             *)
(***************************************************************************)
\* variant: the last available backup of the chain instead of the first
RECURSIVE FirstAvailable_Last(_, _, _)
FirstAvailable_Last(quarantined, backups, i) ==
    IF i > Len(backups) THEN fallback_model
    ELSE LET later == FirstAvailable_Last(quarantined, backups, i + 1) IN
         IF ~is_quarantined(quarantined, backups[i])
            /\ ~\E j \in (i + 1)..Len(backups) : ~is_quarantined(quarantined, backups[j])
         THEN backups[i]
         ELSE later

\* variant: the first backup is taken without the quarantine test
FirstAvailable_Untested(quarantined, backups, i) ==
    IF i > Len(backups) THEN fallback_model ELSE backups[i]

\* get_available_model, `for backup in backups:` from backup i on
RECURSIVE FirstAvailable(_, _, _)
FirstAvailable(quarantined, backups, i) ==
    IF i > Len(backups) THEN fallback_model
    ELSE IF ~is_quarantined(quarantined, backups[i]) THEN backups[i]
         ELSE FirstAvailable(quarantined, backups, i + 1)

\* variant: the primary itself as the last resort
get_available_model_PrimaryLastResort(quarantined, primary_model) ==
    IF ~is_quarantined(quarantined, primary_model) THEN primary_model
    ELSE LET found == FirstAvailable(quarantined, get_backup_models(primary_model), 1) IN
         IF is_quarantined(quarantined, found) THEN primary_model ELSE found

\* MoERouter.get_available_model
get_available_model(quarantined, primary_model) ==
    IF ~is_quarantined(quarantined, primary_model) THEN primary_model
    ELSE FirstAvailable(quarantined, get_backup_models(primary_model), 1)

\* variant: no `not in experts` test
RECURSIVE AppendAvailable_Dup(_, _, _, _, _)
AppendAvailable_Dup(quarantined, models, i, experts, k) ==
    IF i > Len(models) \/ Len(experts) >= k THEN experts
    ELSE IF ~is_quarantined(quarantined, models[i])
         THEN AppendAvailable_Dup(quarantined, models, i + 1, Append(experts, models[i]), k)
         ELSE AppendAvailable_Dup(quarantined, models, i + 1, experts, k)

\* variant: no quarantine test when the selection is filled
RECURSIVE AppendAvailable_Untested(_, _, _, _, _)
AppendAvailable_Untested(quarantined, models, i, experts, k) ==
    IF i > Len(models) \/ Len(experts) >= k THEN experts
    ELSE IF models[i] \notin Range(experts)
         THEN AppendAvailable_Untested(quarantined, models, i + 1,
                                       Append(experts, models[i]), k)
         ELSE AppendAvailable_Untested(quarantined, models, i + 1, experts, k)

\* select_experts_for_query, the two loops `for model in models:` from model i on:
\* break when len(experts) >= k, append what is neither quarantined nor included
RECURSIVE AppendAvailable(_, _, _, _, _)
AppendAvailable(quarantined, models, i, experts, k) ==
    IF i > Len(models) \/ Len(experts) >= k THEN experts
    ELSE IF ~is_quarantined(quarantined, models[i]) /\ models[i] \notin Range(experts)
         THEN AppendAvailable(quarantined, models, i + 1, Append(experts, models[i]), k)
         ELSE AppendAvailable(quarantined, models, i + 1, experts, k)

\* the slice experts[:k]
SliceTo(s, k) ==
    IF k >= 0
    THEN SubSeq(s, 1, IF k < Len(s) THEN k ELSE Len(s))
    ELSE SubSeq(s, 1, IF Len(s) + k > 0 THEN Len(s) + k ELSE 0)

\* variant: the backups of the classifier's primary, not of the resolved one
select_experts_for_query_Unresolved(quarantined, routed, k) ==
    LET primary_expert == get_available_model(quarantined, routed[1])
        seed == << primary_expert >>
        with_backups ==
            AppendAvailable(quarantined, get_backup_models(routed[1]), 1, seed, k)
        experts ==
            IF k > 1
            THEN IF Len(with_backups) < k
                 THEN AppendAvailable(quarantined, get_all_expert_models, 1, with_backups, k)
                 ELSE with_backups
            ELSE seed
    IN SliceTo(experts, k)

\* variant: no expansion to the other experts of the catalog
select_experts_for_query_NoExpansion(quarantined, routed, k) ==
    LET primary_expert == get_available_model(quarantined, routed[1])
        seed == << primary_expert >>
        with_backups ==
            AppendAvailable(quarantined, get_backup_models(primary_expert), 1, seed, k)
        experts == IF k > 1 THEN with_backups ELSE seed
    IN SliceTo(experts, k)

\* MoERouter.select_experts_for_query, from line 366 on; routed is the value of
\* `await self.route_request(messages, use_rag=False)` (line 364)
select_experts_for_query(quarantined, routed, k) ==
    LET primary_expert == get_available_model(quarantined, routed[1])
        seed == << primary_expert >>
        with_backups ==
            AppendAvailable(quarantined, get_backup_models(primary_expert), 1, seed, k)
        experts ==
            IF k > 1
            THEN IF Len(with_backups) < k
                 THEN AppendAvailable(quarantined, get_all_expert_models, 1, with_backups, k)
                 ELSE with_backups
            ELSE seed
    IN SliceTo(experts, k)

\* variant: a quarantined expert that is returned as the last resort is taken
\* out of the quarantine set
GetAvailableModel_Readmit(primary_model) ==
    LET ret == get_available_model(quarantined_models, primary_model) IN
    /\ call' = [NoCall EXCEPT !.op = "get_available_model", !.model = primary_model,
                              !.ret = ret]
    /\ quarantined_models' = quarantined_models \ { ret }
    /\ UNCHANGED <<circuit_breaker_threshold, failure_counts, streak>>

\* a call of MoERouter.get_available_model
GetAvailableModel(primary_model) ==
    /\ call' = [NoCall EXCEPT !.op = "get_available_model", !.model = primary_model,
                              !.ret = get_available_model(quarantined_models, primary_model)]
    /\ UNCHANGED <<health, streak>>

\* a call of MoERouter.get_backup_models
GetBackupModels(primary_model) ==
    /\ call' = [NoCall EXCEPT !.op = "get_backup_models", !.model = primary_model,
                              !.ret = get_backup_models(primary_model)]
    /\ UNCHANGED <<health, streak>>

\* a call of MoERouter.route_request on Request(S, shape)
RouteRequest(S, shape, use_rag) ==
    /\ call' = [NoCall EXCEPT !.op = "route_request", !.words = S, !.shape = shape,
                              !.use_rag = use_rag,
                              !.ret = route_request(Request(S, shape), use_rag)]
    /\ UNCHANGED <<health, streak>>

\* one request for each expert the classifier can choose
SampleRequests ==
    { << {w}, "str" >> : w \in 1..8 } \cup
    { << {1, 2}, "str" >>, << {}, "image" >>, << {4}, "image" >> }

\* route_request(messages, use_rag=False) on the sample requests, tabulated
Routed == [ r \in SampleRequests |-> route_request(Request(r[1], r[2]), FALSE) ]

\* a call of MoERouter.select_experts_for_query on the sample request r
SelectExperts(r, k) ==
    /\ call' = [NoCall EXCEPT !.op = "select_experts_for_query", !.words = r[1],
                              !.shape = r[2], !.k = k,
                              !.ret = select_experts_for_query(quarantined_models,
                                                               Routed[r], k)]
    /\ UNCHANGED <<health, streak>>

(***************************************************************************)
(* Degradation of a request to a text-only expert.                         *)
(***************************************************************************)
\* strip_images_for_fallback, line 312: the item is a part of type "text"
IsTextItem(item) == item.type = "text"

\* strip_images_for_fallback, lines 310-313: text_parts after the loop over the
\* items of one content
TextPartsOf(items) ==
    LET kept == SelectSeq(items, IsTextItem) IN
    [ i \in DOMAIN kept |-> kept[i].text ]

\* variant: only the last text part is kept, as the classifier reads a content
JoinSpace_LastOnly(text_parts, i) ==
    IF Len(text_parts) = 0 THEN "" ELSE text_parts[Len(text_parts)]

\* " ".join(text_parts), from part i on
RECURSIVE JoinSpace(_, _)
JoinSpace(text_parts, i) ==
    IF i > Len(text_parts) THEN ""
    ELSE IF i = Len(text_parts) THEN text_parts[i]
         ELSE text_parts[i] \o " " \o JoinSpace(text_parts, i + 1)

\* strip_images_for_fallback, lines 308-321: what is appended for one message
CleanedMessage(msg) ==
    IF msg.content.kind = "list"
    THEN LET text_parts == TextPartsOf(msg.content.items) IN
         [msg EXCEPT !.content =
             StrContent(IF Len(text_parts) > 0 THEN JoinSpace(text_parts, 1) ELSE "")]
    ELSE msg

\* MoERouter.strip_images_for_fallback
strip_images_for_fallback(messages) ==
    [ i \in DOMAIN messages |-> CleanedMessage(messages[i]) ]

\* the shapes of the requests stripped: those of Request, a content of images
\* only, an empty list content, and three text parts around two images
StripShapes == Shapes \cup { "images_only", "empty_list", "three_parts" }

StripRequest(S, shape) ==
    CASE shape = "images_only" ->
           << Message("system", StrContent(Text(S))),
              Message("user", ListContent(<< ImagePart, ImagePart >>)) >>
      [] shape = "empty_list" ->
           << Message("user", ListContent(<< >>)),
              Message("assistant", StrContent(Text(S))) >>
      [] shape = "three_parts" ->
           << Message("user",
                ListContent(<< TextPart(Text(S \cap (1..3))), ImagePart,
                               TextPart(Text(S \cap (4..6))), ImagePart,
                               TextPart(Text(S \cap (7..9))) >>)) >>
      [] OTHER -> Request(S, shape)

\* a call of MoERouter.strip_images_for_fallback on StripRequest(S, shape)
StripImagesForFallback(S, shape) ==
    /\ call' = [NoCall EXCEPT !.op = "strip_images_for_fallback", !.words = S,
                              !.shape = shape,
                              !.ret = strip_images_for_fallback(StripRequest(S, shape))]
    /\ UNCHANGED <<health, streak>>

(***************************************************************************)
(* Response aggregation.  A score is the pair << numerator, denominator >>  *)
(* of an exact fraction; a mapping from experts to responses is the         *)
(* sequence of its << expert, response >> items in iteration order.         *)
(***************************************************************************)
\* the characters str.split() splits at
Whitespace == { " ", "\t", "\n", "\r", "\f" }

\* character i of s is not whitespace
InWord(s, i) == SubSeq(s, i, i) \notin Whitespace

\* the position of the last character of the word of s that starts at i
WordEnd(s, i) ==
    CHOOSE j \in i..Len(s) :
        /\ \A k \in i..j : InWord(s, k)
        /\ j = Len(s) \/ ~InWord(s, j + 1)

\* set(s.split()): the maximal runs of characters that are not whitespace
Words(s) ==
    { SubSeq(s, i, WordEnd(s, i)) :
        i \in { i \in 1..Len(s) : InWord(s, i) /\ (i = 1 \/ ~InWord(s, i - 1)) } }

\* set(response.lower().split())
WordSet(response) == Words(Lower(response))

\* sum(len(r) for r in responses), from response i on
RECURSIVE SumLen(_, _)
SumLen(responses, i) ==
    IF i > Len(responses) THEN 0 ELSE Len(responses[i]) + SumLen(responses, i + 1)

\* total_words: the sum of len(words) over the responses, from response i on
RECURSIVE SumWords(_, _)
SumWords(responses, i) ==
    IF i > Len(responses) THEN 0
    ELSE Cardinality(WordSet(responses[i])) + SumWords(responses, i + 1)

\* max(0.0, min(1.0, score)) on the numerator score of a fraction over den
Clamp(score, den) ==
    LET upper == IF score < den THEN score ELSE den IN
    IF upper > 0 THEN upper ELSE 0

\* calculate_coverage_score, lines 408-420: confidence_penalty, in units of
\* 1 / (100 * n) for n responses
ConfidencePenalty(confidence_keywords, responses) ==
    LET low_confidence_count ==
            Cardinality({ i \in DOMAIN responses :
                            AnyKeyword(Lower(responses[i]), confidence_keywords) })
    IN 40 * low_confidence_count

\* calculate_coverage_score, lines 422-426: what avg_length takes off the score
BrevityPenalty(responses) ==
    LET n == Len(responses)
        total_length == SumLen(responses, 1)
    IN IF total_length < 50 * n THEN 30 * n
       ELSE IF total_length < 150 * n THEN 15 * n
       ELSE 0

\* calculate_coverage_score, lines 428-441: what low diversity takes off the
\* score; diversity = len(unique_words) / total_words is below 0.3
RedundancyPenalty(responses) ==
    LET n == Len(responses)
        unique_words == UNION { WordSet(responses[i]) : i \in DOMAIN responses }
        total_words == SumWords(responses, 1)
    IN IF n > 1 /\ total_words > 0
          /\ 10 * Cardinality(unique_words) < 3 * total_words
       THEN 20 * n
       ELSE 0

\* calculate_coverage_score, lines 406-443, for n >= 1 responses: the score as
\* a fraction over 100 * n
PenalisedScore(confidence_keywords, responses) ==
    LET den == 100 * Len(responses)
        score == den - ConfidencePenalty(confidence_keywords, responses)
                     - BrevityPenalty(responses) - RedundancyPenalty(responses)
    IN << Clamp(score, den), den >>

\* variant: the empty sequence gets the start score 1.0
calculate_coverage_score_EmptyFull(confidence_keywords, responses) ==
    IF Len(responses) = 0 THEN << 1, 1 >>
    ELSE PenalisedScore(confidence_keywords, responses)

\* MoERouter.calculate_coverage_score with settings.confidence_keywords
calculate_coverage_score(confidence_keywords, responses) ==
    IF Len(responses) = 0 THEN << 0, 1 >>
    ELSE PenalisedScore(confidence_keywords, responses)

\* variant: each response is headed by the expert that gave it
AggregatedEntry_Attributed(model, response) == "[" \o model \o "] " \o response

\* aggregate_expert_responses, lines 469-473: what is appended for one item
AggregatedEntry(model, response) == response

\* "\n\n".join(aggregated) for the items of expert_responses from item i on
RECURSIVE JoinBlank(_, _)
JoinBlank(expert_responses, i) ==
    IF i > Len(expert_responses) THEN ""
    ELSE LET entry == AggregatedEntry(expert_responses[i][1], expert_responses[i][2]) IN
         IF i = Len(expert_responses) THEN entry
         ELSE entry \o "\n\n" \o JoinBlank(expert_responses, i + 1)

\* MoERouter.aggregate_expert_responses
aggregate_expert_responses(expert_responses) ==
    IF Len(expert_responses) = 0 THEN ""
    ELSE IF Len(expert_responses) = 1 THEN expert_responses[1][2]
         ELSE JoinBlank(expert_responses, 1)

\* the values of settings.confidence_keywords explored
ConfidenceKeywordLists ==
    << << >>, << "not sure", "uncertain" >>,
       << "not sure", "uncertain", "maybe", "perhaps" >> >>

\* the response texts scored: 6, 56, 70 and 156 characters
ScoredTexts ==
    { "Maybe.",
      "I'm not sure about this, maybe it could be related to X.",
      "This is a comprehensive answer with detailed explanation of the topic.",
      "Here's another thorough response providing additional context and examples. "
        \o "It goes on with one more sentence so that it counts as a long response, "
        \o "Perhaps." }

\* the sequences over S of length at most n
SeqsUpTo(S, n) == UNION { [1..m -> S] : m \in 0..n }

\* response texts with words repeated inside a response
RepetitiveTexts == { "no no no no", "No.", "maybe so, maybe not, maybe so, maybe not" }

\* a call of MoERouter.calculate_coverage_score under confidence keyword list c
CalculateCoverageScore(c, responses) ==
    /\ call' = [NoCall EXCEPT !.op = "calculate_coverage_score", !.k = c,
                              !.arg = responses,
                              !.ret = calculate_coverage_score(ConfidenceKeywordLists[c],
                                                               responses)]
    /\ UNCHANGED << health, streak >>

\* the experts and the response texts of the mappings aggregated
AggregatedExperts == { reasoning_model, enterprise_model, code_model, fallback_model }

AggregatedTexts == { "X", "", "Expert 1 says this is correct.", "two\n\nparagraphs" }

\* the mappings: sequences of items with pairwise different experts
Mappings ==
    { m \in SeqsUpTo(AggregatedExperts \X AggregatedTexts, MaxEntries) :
        \A i, j \in DOMAIN m : m[i][1] = m[j][1] => i = j }

\* a call of MoERouter.aggregate_expert_responses
AggregateExpertResponses(expert_responses) ==
    /\ call' = [NoCall EXCEPT !.op = "aggregate_expert_responses",
                              !.arg = expert_responses,
                              !.ret = aggregate_expert_responses(expert_responses)]
    /\ UNCHANGED << health, streak >>

\* total number of failures currently recorded
RECURSIVE SumCounts(_, _)
SumCounts(fc, dom) ==
    IF dom = {} THEN 0
    ELSE LET m == CHOOSE x \in dom : TRUE IN fc[m] + SumCounts(fc, dom \ {m})

Outstanding == SumCounts(failure_counts, DOMAIN failure_counts)

\* MoERouter.__init__: no failures recorded, nothing quarantined
Init ==
    /\ circuit_breaker_threshold \in 1..MaxThreshold
    /\ failure_counts = << >>
    /\ quarantined_models = {}
    /\ streak = [m \in Identifiers |-> 0]
    /\ call = NoCall

\* the requests of the full machine
MainRequests == { << {1}, "str" >>, << {4}, "image" >>, << {8}, "str" >> }

(***************************************************************************)
(* The chat-completion endpoint (app/routes/chat.py), the caller of the    *)
(* router in single-expert mode.                                           *)
(***************************************************************************)
\* route_request(messages, use_rag) on the requests of the full machine, tabulated
ChatRouted ==
    [ q \in MainRequests \X BOOLEAN |-> route_request(Request(q[1][1], q[1][2]), q[2]) ]

\* create_chat_completion, lines 24-31: the model of the outbound call; routed
\* is the value of route_request (line 24), request_model is request.model
chat_model(routed, request_model) ==
    IF request_model # "" /\ request_model # "auto" THEN request_model ELSE routed[1]

\* create_chat_completion, lines 37-58: the last user message is replaced by
\* the augmented prompt
chat_augments(routed, request_use_rag, messages) ==
    /\ routed[2] \/ request_use_rag
    /\ LastUserIndex(messages) > 0
    /\ messages[LastUserIndex(messages)].content.kind = "str"
    /\ messages[LastUserIndex(messages)].content.text # ""

\* the values of request.model explored: the router decides, or an explicit model
RequestModels == { "auto", enterprise_model }

\* how the outbound call to the model ends
Outcomes == { "ok", "error" }

\* create_chat_completion on the request r: the outbound call goes to
\* call'.model and ends with outcome; ret is << HTTP status, outcome >> (a
\* streamed response has status 200 and reports an error inside the stream).
\* No statement of the handler reads or writes the router's health state.
CreateChatCompletion(r, request_model, request_use_rag, stream, outcome) ==
    LET routed == ChatRouted[<< r, request_use_rag >>]
        model == chat_model(routed, request_model)
        status == IF ~stream /\ outcome = "error" THEN 500 ELSE 200
    IN /\ call' = [NoCall EXCEPT
                      !.op = "create_chat_completion", !.words = r[1], !.shape = r[2],
                      !.use_rag = request_use_rag, !.requested = request_model,
                      !.stream = stream, !.model = model,
                      !.augmented = chat_augments(routed, request_use_rag,
                                                  Request(r[1], r[2])),
                      !.ret = << status, outcome >>,
                      !.count_before = FailureCount(failure_counts, model),
                      !.quarantined_before = model \in quarantined_models]
       /\ UNCHANGED << health, streak >>


Next ==
    \/ \E m \in Experts : Outstanding < MaxOutstanding /\ record_failure(m)
    \/ \E m \in Experts : record_success(m)
    \/ \E m \in Experts : IsQuarantined(m)
    \/ \E m \in Experts : GetAvailableModel(m)
    \/ \E r \in MainRequests, u \in BOOLEAN : RouteRequest(r[1], r[2], u)
    \/ \E r \in MainRequests, k \in 1..2 : SelectExperts(r, k)

\* the router from construction on, every operation in any order
Spec == Init /\ [][Next]_vars

\* threshold 1, so that every subset of the catalog becomes quarantined
InitPool == Init /\ circuit_breaker_threshold = 1

\* the classifier alone: one route_request call on each request explored
NextRoute ==
    /\ call.op = "none"
    /\ \E S \in SUBSET WordIdx, shape \in Shapes, u \in BOOLEAN : RouteRequest(S, shape, u)

SpecRoute == InitPool /\ [][NextRoute]_vars

\* no query issued yet
Building == call.op \in { "none", "record_failure", "record_success" }

\* any health state, then one get_available_model call
NextResolve ==
    /\ Building
    /\ \/ \E m \in Experts \ quarantined_models : record_failure(m)
       \/ \E m \in quarantined_models : record_success(m)
       \/ \E m \in Experts : GetAvailableModel(m)

SpecResolve == InitPool /\ [][NextResolve]_vars

\* any health state, then one select_experts_for_query call
NextSelect ==
    /\ Building
    /\ \/ \E m \in Experts \ quarantined_models : record_failure(m)
       \/ \E m \in quarantined_models : record_success(m)
       \/ \E r \in SampleRequests, k \in 0..MaxK : SelectExperts(r, k)

SpecSelect == InitPool /\ [][NextSelect]_vars

\* the experts the classifier chooses for the requests of the full machine
ChatPrimaries == { ChatRouted[q][1] : q \in DOMAIN ChatRouted }

\* the endpoint, and the router's health operations on the experts the
\* endpoint's requests are routed to, in any order
NextChat ==
    \/ \E m \in ChatPrimaries : Outstanding < MaxOutstanding /\ record_failure(m)
    \/ \E m \in ChatPrimaries : record_success(m)
    \/ \E r \in MainRequests, rm \in RequestModels, u \in BOOLEAN, st \in BOOLEAN,
          o \in Outcomes : CreateChatCompletion(r, rm, u, st, o)

SpecChat == Init /\ [][NextChat]_vars

\* the aggregator alone: one scoring or merging call on each input explored
NextAggregate ==
    /\ call.op = "none"
    /\ \/ \E c \in DOMAIN ConfidenceKeywordLists,
             responses \in SeqsUpTo(ScoredTexts, MaxResponses) :
             CalculateCoverageScore(c, responses)
       \/ \E expert_responses \in Mappings : AggregateExpertResponses(expert_responses)

SpecAggregate == InitPool /\ [][NextAggregate]_vars

\* the scoring alone, on responses that repeat their words
NextRedundancy ==
    /\ call.op = "none"
    /\ \E c \in DOMAIN ConfidenceKeywordLists,
          responses \in SeqsUpTo(RepetitiveTexts, MaxResponses) :
          CalculateCoverageScore(c, responses)

SpecRedundancy == InitPool /\ [][NextRedundancy]_vars

\* the degradation alone: one strip_images_for_fallback call on each request
NextStrip ==
    /\ call.op = "none"
    /\ \E S \in SUBSET WordIdx, shape \in StripShapes : StripImagesForFallback(S, shape)

SpecStrip == InitPool /\ [][NextStrip]_vars

\* the identifiers whose health is operated on in the machine of all operations:
\* the unknown ones and the expert of last resort
FrameModels == UnknownModels \cup { fallback_model }

\* the responses scored and the mappings merged in the machine of all operations
FrameResponses == { << >>, << "Maybe." >>, << "Maybe.", "X" >> }

FrameMappings ==
    { << >>, << << code_model, "X" >> >>,
      << << code_model, "X" >>, << fallback_model, "" >> >> }

\* every operation of the router, in any order, on identifiers in and out of
\* the registry
NextFrame ==
    \/ \E m \in FrameModels : Outstanding < MaxOutstanding /\ record_failure(m)
    \/ \E m \in FrameModels : record_success(m)
    \/ \E m \in FrameModels : IsQuarantined(m)
    \/ \E m \in FrameModels : GetAvailableModel(m)
    \/ \E m \in Identifiers : GetBackupModels(m)
    \/ \E r \in MainRequests, u \in BOOLEAN : RouteRequest(r[1], r[2], u)
    \/ \E r \in MainRequests, k \in 1..2 : SelectExperts(r, k)
    \/ \E c \in DOMAIN ConfidenceKeywordLists, responses \in FrameResponses :
          CalculateCoverageScore(c, responses)
    \/ \E expert_responses \in FrameMappings : AggregateExpertResponses(expert_responses)

SpecFrame == Init /\ [][NextFrame]_vars

(***************************************************************************)
(* The circuit breaker (under Spec).                                       *)
(***************************************************************************)
\* C1: for every expert e and every threshold T >= 1, e is quarantined exactly
\* when T or more record_failure(e) calls have occurred since construction or
\* since the last record_success(e): not after fewer than T, and as soon as the
\* T-th has occurred; is_quarantined(e) answers accordingly.
C1_QuarantineAtThreshold ==
    /\ circuit_breaker_threshold >= 1
    /\ \A e \in Experts :
          (e \in quarantined_models) <=> (streak[e] >= circuit_breaker_threshold)
    /\ call.op = "is_quarantined" =>
          (call.ret <=> (streak[call.model] >= circuit_breaker_threshold))

\* C1 witness: the T-th failure in a row of an expert, T > 1, has just
\* quarantined it
C1_Witness ==
    /\ circuit_breaker_threshold > 1
    /\ call.op = "record_failure"
    /\ ~call.quarantined_before
    /\ streak[call.model] = circuit_breaker_threshold
    /\ call.model \in quarantined_models

\* C2: right after record_success(e), e has no entry in failure_counts (its
\* failure count is zero) and is not quarantined, whatever its count and
\* quarantine status were before the call.
C2_SuccessResets ==
    call.op = "record_success" =>
        /\ call.model \notin DOMAIN failure_counts
        /\ FailureCount(failure_counts, call.model) = 0
        /\ ~is_quarantined(quarantined_models, call.model)

\* C2 witness: record_success on an expert that was quarantined with a count
\* above the threshold
C2_Witness ==
    /\ call.op = "record_success"
    /\ call.quarantined_before
    /\ call.count_before > circuit_breaker_threshold
    /\ call.model \notin DOMAIN failure_counts
    /\ call.model \notin quarantined_models

\* C3: an expert leaves the quarantine set only in a step that is
\* record_success on that expert; every other operation (record_failure on any
\* expert, record_success on another expert, route_request, get_available_model,
\* select_experts_for_query, is_quarantined) keeps it quarantined.
C3_OnlySuccessRecovers ==
    [][ \A e \in Experts :
          (e \in quarantined_models /\ e \notin quarantined_models')
             => (call'.op = "record_success" /\ call'.model = e) ]_vars

\* C3 witness: an expert is still quarantined right after record_success took
\* another expert out of quarantine
C3_Witness ==
    /\ call.op = "record_success"
    /\ call.quarantined_before
    /\ \E e \in quarantined_models : e # call.model

(***************************************************************************)
(* Substitution (under SpecResolve).                                       *)
(***************************************************************************)
\* the backups of primary that are not quarantined, as positions of its chain
AvailableBackups(primary) ==
    { i \in DOMAIN get_backup_models(primary) :
        get_backup_models(primary)[i] \notin quarantined_models }

\* C4: get_available_model(primary) returns primary whenever primary is not
\* quarantined; when primary is quarantined and some backup of its chain is
\* not, it returns the first non-quarantined backup in chain order.
C4_FirstAvailableBackup ==
    call.op = "get_available_model" =>
        LET primary == call.model
            backups == get_backup_models(primary)
        IN /\ primary \notin quarantined_models => call.ret = primary
           /\ (primary \in quarantined_models /\ AvailableBackups(primary) # {}) =>
                 \E i \in AvailableBackups(primary) :
                    /\ call.ret = backups[i]
                    /\ call.ret \notin quarantined_models
                    /\ \A j \in 1..(i - 1) : backups[j] \in quarantined_models

\* C4 witness: the primary and its first backup are quarantined, the second
\* backup is not and is returned
C4_Witness ==
    /\ call.op = "get_available_model"
    /\ call.model \in quarantined_models
    /\ Len(get_backup_models(call.model)) = 2
    /\ get_backup_models(call.model)[1] \in quarantined_models
    /\ get_backup_models(call.model)[2] \notin quarantined_models
    /\ call.ret = get_backup_models(call.model)[2]

NoRepeats(s) == \A i, j \in DOMAIN s : s[i] = s[j] => i = j

\* C6: for every request, every health state and every k >= 0,
\* select_experts_for_query returns a sequence without repeated expert of
\* length <= k, and of length at most the catalog size (9) also for larger k.
C6_DistinctAtMostK ==
    call.op = "select_experts_for_query" =>
        /\ NoRepeats(call.ret)
        /\ Len(call.ret) <= call.k
        /\ Len(call.ret) <= Len(get_all_expert_models)

\* C6 witness: k above the catalog size, every expert of the catalog returned
C6_Witness ==
    /\ call.op = "select_experts_for_query"
    /\ call.k > Len(get_all_expert_models)
    /\ Len(call.ret) = Len(get_all_expert_models)
    /\ quarantined_models = {}

\* the elements of s that are not quarantined and not in the set seen, in order
RECURSIVE KeepAvailable(_, _, _)
KeepAvailable(s, i, seen) ==
    IF i > Len(s) THEN << >>
    ELSE IF s[i] \in quarantined_models \/ s[i] \in seen
         THEN KeepAvailable(s, i + 1, seen)
         ELSE << s[i] >> \o KeepAvailable(s, i + 1, seen \cup {s[i]})

\* the first k elements of s (all of s if it is shorter)
FirstK(s, k) == [ i \in 1..(IF k < Len(s) THEN k ELSE Len(s)) |-> s[i] ]

\* C7: for k >= 1 the result is non-empty in every health state; its first
\* element is get_available_model(route_request(request).expert); then come the
\* non-quarantined, not yet included backups of that resolved primary in chain
\* order, then the non-quarantined, not yet included experts of the catalog in
\* its enumeration order; the result is this sequence cut at length k.
C7_SelectionOrder ==
    (call.op = "select_experts_for_query" /\ call.k >= 1) =>
        LET request == Request(call.words, call.shape)
            first == get_available_model(quarantined_models,
                                         route_request(request, FALSE)[1])
            backups == KeepAvailable(get_backup_models(first), 1, {first})
            others == KeepAvailable(get_all_expert_models, 1,
                                    {first} \cup Range(backups))
        IN /\ Len(call.ret) >= 1
           /\ call.ret[1] = first
           /\ call.ret = FirstK(<< first >> \o backups \o others, call.k)

\* C7 witness: the classifier's primary is quarantined and replaced, a backup
\* of the resolved primary is quarantined and skipped, and the catalog fills
\* the result up to k
C7_Witness ==
    /\ call.op = "select_experts_for_query"
    /\ call.k >= 4
    /\ Len(call.ret) = call.k
    /\ route_request(Request(call.words, call.shape), FALSE)[1] \in quarantined_models
    /\ call.ret[1] \notin quarantined_models
    /\ \E i \in DOMAIN get_backup_models(call.ret[1]) :
          get_backup_models(call.ret[1])[i] \in quarantined_models
    /\ \E i \in DOMAIN call.ret :
          call.ret[i] \notin Range(get_backup_models(call.ret[1])) \cup {call.ret[1]}

(***************************************************************************)
(* Classification (under SpecRoute).  The text of a request is the text    *)
(* the classifier matches against the keyword sets (lower_message).        *)
(***************************************************************************)
\* the most recent user turn of the request has an image part
TurnHasImage(messages) ==
    LET i == LastUserIndex(messages) IN
    /\ i > 0
    /\ messages[i].content.kind = "list"
    /\ \E j \in DOMAIN messages[i].content.items :
          messages[i].content.items[j].type = "image_url"

\* the text of the request built from S and shape
ClassifierText(S, shape) == Lower(ExtractLastUser(Request(S, shape))[1])

\* the branches in the order of their priority
Branches ==
    << "image", "code", "math_tool", "reasoning", "enterprise", "aggregation",
       "retrieval", "default" >>

\* branch number b matches a request with this text and image presence
BranchMatches(b, text, image) ==
    CASE Branches[b] = "image" -> image
      [] Branches[b] = "code" -> AnyKeyword(text, CODE_KEYWORDS)
      [] Branches[b] = "math_tool" -> AnyKeyword(text, MATH_TOOL_KEYWORDS)
      [] Branches[b] = "reasoning" -> AnyKeyword(text, REASONING_KEYWORDS)
      [] Branches[b] = "enterprise" -> AnyKeyword(text, ENTERPRISE_KEYWORDS)
      [] Branches[b] = "aggregation" -> AnyKeyword(text, AGGREGATION_KEYWORDS)
      [] Branches[b] = "retrieval" -> AnyKeyword(text, RAG_KEYWORDS)
      [] OTHER -> TRUE

\* the number of the highest-priority matching branch
TopBranch(text, image) ==
    CHOOSE b \in DOMAIN Branches :
        /\ BranchMatches(b, text, image)
        /\ \A c \in 1..(b - 1) : ~BranchMatches(c, text, image)

\* the expert of a branch
BranchExpert(b, text) ==
    CASE Branches[b] = "image" ->
           IF AnyKeyword(text, REASONING_KEYWORDS) \/ AnyKeyword(text, MATH_TOOL_KEYWORDS)
           THEN vision_thinking_model ELSE vision_model
      [] Branches[b] = "code" ->
           IF AnyKeyword(text, SIMPLE_CODE_KEYWORDS) THEN cost_code_model ELSE code_model
      [] Branches[b] = "math_tool" -> math_tool_model
      [] Branches[b] = "reasoning" -> reasoning_model
      [] Branches[b] = "enterprise" -> enterprise_model
      [] Branches[b] = "aggregation" -> aggregator_model
      [] OTHER -> fallback_model

\* the keyword categories (branches 2 to 7) the phrase w of Vocab has keywords of
CategoriesOf(w) ==
    { b \in 2..7 : BranchMatches(b, Lower(Vocab[w]), FALSE) }

\* the phrases of the request of the last call that carry keywords, all of them
\* of categories of lower priority than the request's highest matching branch
LowerPriorityWords ==
    LET top == TopBranch(ClassifierText(call.words, call.shape),
                         TurnHasImage(Request(call.words, call.shape)))
    IN { w \in call.words : CategoriesOf(w) # {} /\ \A b \in CategoriesOf(w) : b > top }

\* the expert route_request returns for the request of the last call without
\* the phrase w
ExpertWithout(w) ==
    route_request(Request(call.words \ {w}, call.shape), call.use_rag)[1]

\* C8 as stated: the returned expert is decided by the highest-priority matching
\* branch alone, so a request keeps its expert when a phrase with keywords of
\* lower-priority categories only is taken out of its text.
C8_LowerKeywordsNeverMatter ==
    call.op = "route_request" =>
        \A w \in LowerPriorityWords : ExpertWithout(w) = call.ret[1]

\* C8 amended: the returned expert is the one of the highest-priority matching
\* branch in the order image > code > math/tool > reasoning > enterprise >
\* aggregation > retrieval > default, and keywords of lower-priority categories
\* never change it, except that in the image branch a reasoning or math/tool
\* keyword selects the vision-plus-reasoning expert instead of the plain vision
\* expert.
C8_FirstMatchCascade ==
    call.op = "route_request" =>
        LET request == Request(call.words, call.shape)
            text == ClassifierText(call.words, call.shape)
            image == TurnHasImage(request)
        IN /\ call.ret[1] = BranchExpert(TopBranch(text, image), text)
           /\ \A w \in LowerPriorityWords :
                 \/ ExpertWithout(w) = call.ret[1]
                 \/ /\ image
                    /\ CategoriesOf(w) \cap {3, 4} # {}
                    /\ call.ret[1] = vision_thinking_model
                    /\ ExpertWithout(w) = vision_model

\* C8 witness: a text with keywords of every category and no image is routed
\* by its code keyword
C8_Witness ==
    /\ call.op = "route_request"
    /\ call.shape = "str"
    /\ call.words = {1, 3, 4, 5, 6, 7}
    /\ call.ret[1] = code_model

\* C9: when the most recent user turn has an image part, route_request returns
\* the vision-plus-reasoning expert if the text has a reasoning or math/tool
\* keyword and the plain vision expert otherwise, with useRetrieval false,
\* whatever the caller's flag and the other keywords of the text.
C9_VisionBranch ==
    (call.op = "route_request" /\ TurnHasImage(Request(call.words, call.shape))) =>
        LET text == ClassifierText(call.words, call.shape) IN
        call.ret =
            << IF AnyKeyword(text, REASONING_KEYWORDS) \/ AnyKeyword(text, MATH_TOOL_KEYWORDS)
               THEN vision_thinking_model ELSE vision_model,
               FALSE >>

\* C9 witness: an image request with code, math/tool, enterprise, aggregation
\* and retrieval keywords but no reasoning keyword, retrieval requested
C9_Witness ==
    /\ call.op = "route_request"
    /\ call.shape = "image"
    /\ call.words = {1, 3, 5, 6, 7}
    /\ call.use_rag
    /\ call.ret = << vision_thinking_model, FALSE >>

\* C10: without an image part and with a code keyword in the text,
\* route_request returns the cost-optimized code expert if the text also has a
\* simple/basic/quick/small qualifier and the full code expert otherwise, with
\* useRetrieval false also when the caller requested retrieval.
C10_CodeBranch ==
    (/\ call.op = "route_request"
     /\ ~TurnHasImage(Request(call.words, call.shape))
     /\ AnyKeyword(ClassifierText(call.words, call.shape), CODE_KEYWORDS)) =>
        call.ret =
            << IF AnyKeyword(ClassifierText(call.words, call.shape), SIMPLE_CODE_KEYWORDS)
               THEN cost_code_model ELSE code_model,
               FALSE >>

\* C10 witness: retrieval requested, in a conversation of several turns, for a
\* text whose code keyword is inside a longer word, with a qualifier and a
\* retrieval keyword
C10_Witness ==
    /\ call.op = "route_request"
    /\ call.shape = "history"
    /\ call.words = {2, 7, 9}
    /\ call.use_rag
    /\ call.ret = << cost_code_model, FALSE >>

\* C11: a request without image part whose text has a retrieval keyword and no
\* code, math/tool, reasoning, enterprise or aggregation keyword is routed to the
\* fallback expert with useRetrieval true, for both values of the caller's flag.
C11_RetrievalBranch ==
    (/\ call.op = "route_request"
     /\ ~TurnHasImage(Request(call.words, call.shape))
     /\ \A b \in 2..6 :
           ~BranchMatches(b, ClassifierText(call.words, call.shape), FALSE)
     /\ AnyKeyword(ClassifierText(call.words, call.shape), RAG_KEYWORDS)) =>
        call.ret = << fallback_model, TRUE >>

\* C11 witness: a retrieval keyword alone, retrieval not requested by the caller
C11_Witness ==
    /\ call.op = "route_request"
    /\ call.shape = "str"
    /\ call.words = {7, 8}
    /\ ~call.use_rag
    /\ call.ret = << fallback_model, TRUE >>

\* C12: in the math/tool, reasoning, enterprise, aggregation and default
\* branches the returned useRetrieval is the caller's use_rag argument: true
\* stays true and false stays false.
C12_FlagPassThrough ==
    (/\ call.op = "route_request"
     /\ Branches[TopBranch(ClassifierText(call.words, call.shape),
                           TurnHasImage(Request(call.words, call.shape)))]
           \in { "math_tool", "reasoning", "enterprise", "aggregation", "default" }) =>
        call.ret[2] = call.use_rag

\* C12 witness: the enterprise branch on a text that also has a retrieval
\* keyword, retrieval not requested: the flag stays false
C12_Witness ==
    /\ call.op = "route_request"
    /\ call.shape = "str"
    /\ call.words = {5, 7}
    /\ ~call.use_rag
    /\ call.ret = << enterprise_model, FALSE >>

\* turns put before and after the turns of a request: earlier user turns and
\* turns of other roles, with keywords and image parts, and no user turn after
Contexts ==
    { << << Message("user", StrContent("Debug this script")) >>, << >> >>,
      << << Message("user", ListContent(<< TextPart("Why"), ImagePart >>)),
            Message("assistant", StrContent("summarize")) >>,
         << Message("assistant", StrContent("search the API")) >> >>,
      << << Message("system", ListContent(<< ImagePart, TextPart("production code") >>)) >>,
         << Message("tool", ListContent(<< ImagePart >>)),
            Message("assistant", StrContent("calculate")) >> >> }

\* C13: the result of route_request depends only on the most recent turn with
\* role "user": it is the result for that turn alone, and no earlier user turn
\* and no turn of another role, before or after it, with whatever text and image
\* parts, changes the returned expert or useRetrieval.
C13_OnlyLastUserTurn ==
    (/\ call.op = "route_request"
     /\ LastUserIndex(Request(call.words, call.shape)) > 0) =>
        LET request == Request(call.words, call.shape)
            turn == request[LastUserIndex(request)]
        IN /\ call.ret = route_request(<< turn >>, call.use_rag)
           /\ \A c \in Contexts :
                 route_request(c[1] \o request \o c[2], call.use_rag) = call.ret

\* C13 witness: a retrieval request after an earlier user turn with an image
\* and a math/tool keyword, between turns of other roles with code, reasoning,
\* aggregation and retrieval keywords
C13_Witness ==
    /\ call.op = "route_request"
    /\ call.shape = "history"
    /\ call.words = {7}
    /\ ~call.use_rag
    /\ call.ret = << fallback_model, TRUE >>

\* the concatenation of the text parts of items, in their order, from part i on
RECURSIVE ConcatTextParts(_, _)
ConcatTextParts(items, i) ==
    IF i > Len(items) THEN ""
    ELSE (IF items[i].type = "text" THEN items[i].text ELSE "")
            \o ConcatTextParts(items, i + 1)

\* C14: when the most recent user turn is a sequence of typed parts, the text
\* matched against the keyword sets is the concatenation of all its text
\* parts: the returned expert is the one of the highest-priority branch that
\* matches that concatenation, so a keyword of any text part takes part in the
\* classification.
C14_ConcatenatedTextParts ==
    (/\ call.op = "route_request"
     /\ LastUserIndex(Request(call.words, call.shape)) > 0
     /\ LET request == Request(call.words, call.shape)
        IN request[LastUserIndex(request)].content.kind = "list") =>
        LET request == Request(call.words, call.shape)
            turn == request[LastUserIndex(request)]
            text == Lower(ConcatTextParts(turn.content.items, 1))
            image == TurnHasImage(request)
        IN call.ret[1] = BranchExpert(TopBranch(text, image), text)

\* C15: for a request with an empty turn list, or without a turn of role
\* "user", route_request returns (it does not raise) the fallback expert with
\* useRetrieval equal to the caller's flag, whatever the other turns contain.
C15_NoUserTurn ==
    (/\ call.op = "route_request"
     /\ \A i \in DOMAIN Request(call.words, call.shape) :
           Request(call.words, call.shape)[i].role # "user") =>
        call.ret = << fallback_model, call.use_rag >>

\* C15 witness: system and assistant turns with a code and a retrieval keyword,
\* no user turn, retrieval not requested
C15_Witness ==
    /\ call.op = "route_request"
    /\ call.shape = "no_user"
    /\ call.words = {1, 7}
    /\ Len(Request(call.words, call.shape)) = 2
    /\ ~call.use_rag
    /\ call.ret = << fallback_model, FALSE >>

(***************************************************************************)
(* The caller of the router (under SpecChat).                              *)
(***************************************************************************)
\* C16: after every completed call to the chosen expert the chat-completion
\* caller has recorded its outcome: after a failed call the expert's failure
\* count is one more than before (record_failure), and the expert is
\* quarantined once the count reaches the threshold; after a successful call
\* the expert has no recorded failure and is not quarantined (record_success).
C16_CallerRecordsOutcome ==
    call.op = "create_chat_completion" =>
        IF call.ret[2] = "error"
        THEN /\ FailureCount(failure_counts, call.model) = call.count_before + 1
             /\ ReachedThreshold(call.count_before + 1, circuit_breaker_threshold)
                   => call.model \in quarantined_models
        ELSE /\ call.model \notin DOMAIN failure_counts
             /\ call.model \notin quarantined_models

\* C17: in single-expert mode (request.model "auto") the outbound call goes to
\* the health-resolved expert get_available_model(primary) of the classifier's
\* primary: when the primary is quarantined at decision time and one of its
\* backups is not, the call is not made to the quarantined primary.
C17_SendsToResolvedExpert ==
    (call.op = "create_chat_completion" /\ call.requested = "auto") =>
        LET primary == ChatRouted[<< << call.words, call.shape >>, call.use_rag >>][1]
        IN /\ call.model = get_available_model(quarantined_models, primary)
           /\ (primary \in quarantined_models /\ AvailableBackups(primary) # {})
                 => (call.model # primary /\ call.model \notin quarantined_models)

RECURSIVE JoinedUpTo(_, _)
JoinedUpTo(m, i) ==
    IF i = 0 THEN ""
    ELSE IF i = 1 THEN m[1][2]
         ELSE JoinedUpTo(m, i - 1) \o "\n\n" \o m[i][2]

C20_ScoreInUnitInterval ==
    call.op = "calculate_coverage_score" =>
        /\ Len(call.arg) = 0 => (call.ret[1] = 0 /\ call.ret[2] = 1)
        /\ Len(call.arg) > 0 =>
              /\ call.ret[2] > 0
              /\ 0 <= call.ret[1]
              /\ call.ret[1] <= call.ret[2]

\* C20 witness: four equal hedging responses of one word: the three penalties
\* apply together and the score is 0.1
C20_Witness ==
    /\ call.op = "calculate_coverage_score"
    /\ Len(call.arg) = 4
    /\ \A i \in DOMAIN call.arg : call.arg[i] = "Maybe."
    /\ call.k = 3
    /\ call.ret = << 40, 400 >>

(***************************************************************************)
(* Degradation to text only (under SpecStrip).                             *)
(***************************************************************************)
\* the texts of the text parts among the first n items, in their order, each
\* two separated by one space
RECURSIVE SpaceJoinedTexts(_, _)
SpaceJoinedTexts(items, n) ==
    IF n = 0 THEN ""
    ELSE IF items[n].type # "text" THEN SpaceJoinedTexts(items, n - 1)
         ELSE IF \E j \in 1..(n - 1) : items[j].type = "text"
              THEN SpaceJoinedTexts(items, n - 1) \o " " \o items[n].text
              ELSE items[n].text

\* C21: strip_images_for_fallback returns as many turns as it was given, in the
\* same order and with the same roles; a turn whose content was a sequence of
\* typed parts has as content the texts of its text parts in their order joined
\* by single spaces (image parts dropped, the empty text without a text part);
\* every other turn is returned unchanged.
C21_StripKeepsTurns ==
    call.op = "strip_images_for_fallback" =>
        LET request == StripRequest(call.words, call.shape) IN
        /\ Len(call.ret) = Len(request)
        /\ \A i \in DOMAIN request :
              /\ call.ret[i].role = request[i].role
              /\ IF request[i].content.kind = "list"
                 THEN /\ call.ret[i].content.kind = "str"
                      /\ call.ret[i].content.text =
                            SpaceJoinedTexts(request[i].content.items,
                                             Len(request[i].content.items))
                      /\ (\A j \in DOMAIN request[i].content.items :
                             request[i].content.items[j].type # "text")
                            => call.ret[i].content.text = ""
                 ELSE call.ret[i] = request[i]

\* C21 witness: two text parts around an image become one text, the image is
\* dropped
C21_Witness ==
    /\ call.op = "strip_images_for_fallback"
    /\ call.shape = "parts_image"
    /\ call.words = {1, 2}
    /\ Len(call.ret) = 1
    /\ call.ret[1] = Message("user", StrContent("Debug quick"))

(***************************************************************************)
(* Identifiers outside the registry (under SpecFrame).                     *)
(***************************************************************************)
\* C22: for an identifier that is not in the registry, get_backup_models
\* returns the empty sequence, is_quarantined returns false while no failure is
\* recorded for it, and get_available_model returns a value (the identifier
\* itself while it is not quarantined, the fallback expert once it is); none of
\* the three calls changes the health state.
C22_UnknownExpert ==
    [][ call'.model \in UnknownModels =>
          /\ call'.op = "get_backup_models" =>
                (call'.ret = << >> /\ UNCHANGED health)
          /\ call'.op = "is_quarantined" =>
                /\ FailureCount(failure_counts, call'.model) = 0 => call'.ret = FALSE
                /\ UNCHANGED health
          /\ call'.op = "get_available_model" =>
                /\ call'.ret \in Experts \cup { call'.model }
                /\ call'.ret = IF call'.model \in quarantined_models
                               THEN fallback_model ELSE call'.model
                /\ UNCHANGED health ]_vars

\* C22 witness: get_available_model on an unregistered identifier that was
\* quarantined by recorded failures answers with the fallback expert
C22_Witness ==
    /\ call.op = "get_available_model"
    /\ call.model = "unknown-model:latest"
    /\ call.model \notin DOMAIN backup_chain
    /\ call.model \in quarantined_models
    /\ call.ret = fallback_model

C24_FailureWhileQuarantined ==
    [][ (call'.op = "record_failure" /\ call'.model \in quarantined_models) =>
          /\ FailureCount(failure_counts', call'.model) =
                FailureCount(failure_counts, call'.model) + 1
          /\ FailureCount(failure_counts', call'.model) > circuit_breaker_threshold
          /\ call'.model \in quarantined_models'
          /\ quarantined_models' = quarantined_models ]_vars

\* C24 witness: the third failure of an expert quarantined at threshold 2
C24_Witness ==
    /\ call.op = "record_failure"
    /\ call.model = fallback_model
    /\ call.quarantined_before
    /\ circuit_breaker_threshold = 2
    /\ call.count_before = 2
    /\ failure_counts[call.model] = 3
    /\ call.model \in quarantined_models

(***************************************************************************)
(* Size of a selection (under SpecSelect).                                 *)
(***************************************************************************)
\* C25: when at least k experts of the catalog are not quarantined, with
\* 1 <= k <= 9, select_experts_for_query(request, k) returns exactly k
\* experts, each of them in the catalog, whatever the request.
C25_ExactlyKWhenAvailable ==
    (/\ call.op = "select_experts_for_query"
     /\ 1 <= call.k
     /\ call.k <= 9
     /\ Cardinality(Experts \ quarantined_models) >= call.k) =>
        /\ Len(call.ret) = call.k
        /\ \A i \in DOMAIN call.ret : call.ret[i] \in Experts

\* C25 witness: exactly four experts are left, the first expert of the
\* selection is the quarantined fallback, and four experts are returned
C25_Witness ==
    /\ call.op = "select_experts_for_query"
    /\ call.k = 4
    /\ Cardinality(Experts \ quarantined_models) = 4
    /\ Len(call.ret) = 4
    /\ call.ret[1] \in quarantined_models
    /\ \A i \in 2..4 : call.ret[i] \notin quarantined_models

(***************************************************************************)
(* The redundancy penalty (under SpecRedundancy).                          *)
(***************************************************************************)
\* the number of whitespace-delimited tokens of s, repeated tokens counted
\* each time
TokenCount(s) ==
    Cardinality({ i \in 1..Len(s) : InWord(s, i) /\ (i = 1 \/ ~InWord(s, i - 1)) })

RECURSIVE TotalTokens(_, _)
TotalTokens(responses, i) ==
    IF i > Len(responses) THEN 0
    ELSE TokenCount(responses[i]) + TotalTokens(responses, i + 1)

\* the ratio (distinct tokens over all responses) / (total number of tokens
\* over all responses) is below 0.3
TokenRatioLow(responses) ==
    /\ TotalTokens(responses, 1) > 0
    /\ 10 * Cardinality(UNION { WordSet(responses[i]) : i \in DOMAIN responses })
          < 3 * TotalTokens(responses, 1)

\* C26: for more than one response the returned score carries the redundancy
\* penalty 0.2 exactly when the ratio of the distinct tokens of all responses
\* to the total number of tokens of all responses (repeated tokens counted
\* each time) is below 0.3; a single response never carries it.
C26_RedundancyByTokenRatio ==
    (call.op = "calculate_coverage_score" /\ Len(call.arg) >= 1) =>
        LET n == Len(call.arg)
            unpenalised ==
                100 * n - ConfidencePenalty(ConfidenceKeywordLists[call.k], call.arg)
                        - BrevityPenalty(call.arg)
            applied == call.ret[1] = unpenalised - 20 * n
        IN /\ call.ret[1] \in { unpenalised, unpenalised - 20 * n }
           /\ n = 1 => ~applied
           /\ n > 1 => (applied <=> TokenRatioLow(call.arg))

(***************************************************************************)
(* The health state as a whole (under SpecFrame).                          *)
(***************************************************************************)
\* C27: with a threshold T >= 1, after any sequence of record_failure and
\* record_success calls the quarantine set is exactly the set of identifiers
\* whose failure count is T or more: every quarantined identifier has an entry
\* in failure_counts, no entry is zero, and an identifier without a failure
\* since its last success (or since construction) has no entry and is not
\* quarantined.
C27_QuarantineSetMatchesCounts ==
    /\ circuit_breaker_threshold >= 1
    /\ quarantined_models =
          { e \in DOMAIN failure_counts : failure_counts[e] >= circuit_breaker_threshold }
    /\ \A e \in DOMAIN failure_counts : failure_counts[e] >= 1
    /\ \A e \in Identifiers :
          streak[e] = 0 => (e \notin DOMAIN failure_counts /\ e \notin quarantined_models)

\* C27 witness: at threshold 2 one identifier has just been quarantined by
\* its second failure, another has one failure and is not quarantined, and a
\* third has none
C27_Witness ==
    /\ circuit_breaker_threshold = 2
    /\ call.op = "record_failure"
    /\ failure_counts[call.model] = 2
    /\ quarantined_models = { call.model }
    /\ \E e \in DOMAIN failure_counts : failure_counts[e] = 1 /\ e \notin quarantined_models
    /\ \E e \in FrameModels : streak[e] = 0 /\ e \notin DOMAIN failure_counts

\* the operations that only read the router
Queries ==
    { "route_request", "get_available_model", "select_experts_for_query",
      "is_quarantined", "get_backup_models", "calculate_coverage_score",
      "aggregate_expert_responses" }

\* C28: the failure count and the quarantine flag of an identifier e change
\* only in a step that is record_failure(e) or record_success(e);
\* record_failure and record_success on another identifier leave them as they
\* were, and the seven queries leave the whole health state as it was.
C28_HealthFrame ==
    [][ /\ \A e \in Identifiers :
              (\/ FailureCount(failure_counts', e) # FailureCount(failure_counts, e)
               \/ (e \in DOMAIN failure_counts') # (e \in DOMAIN failure_counts)
               \/ (e \in quarantined_models') # (e \in quarantined_models))
                 => (call'.op \in { "record_failure", "record_success" } /\ call'.model = e)
        /\ call'.op \in Queries =>
              (failure_counts' = failure_counts /\ quarantined_models' = quarantined_models)
      ]_vars

\* C28 witness: get_available_model has just answered with the fallback
\* expert for a quarantined unregistered identifier; the two failures of the
\* identifier and the one failure of the fallback expert are still recorded
C28_Witness ==
    /\ call.op = "get_available_model"
    /\ call.model \in UnknownModels
    /\ call.ret = fallback_model
    /\ circuit_breaker_threshold = 2
    /\ quarantined_models = { call.model }
    /\ failure_counts[call.model] = 2
    /\ fallback_model \in DOMAIN failure_counts
    /\ failure_counts[fallback_model] = 1

(***************************************************************************)
(* Health of the selected experts (under SpecSelect).                      *)
(***************************************************************************)
\* C29: in the result of select_experts_for_query every expert at position 2
\* or later is not quarantined at selection time; the first expert is
\* quarantined only in degraded mode, when the classifier's primary and all of
\* its backups are quarantined, and it is then the fallback expert.
C29_SelectedAvailable ==
    call.op = "select_experts_for_query" =>
        LET primary == Routed[<< call.words, call.shape >>][1]
            backups == get_backup_models(primary)
        IN /\ \A i \in DOMAIN call.ret : i >= 2 => call.ret[i] \notin quarantined_models
           /\ (Len(call.ret) >= 1 /\ call.ret[1] \in quarantined_models) =>
                 /\ call.ret[1] = fallback_model
                 /\ primary \in quarantined_models
                 /\ \A j \in DOMAIN backups : backups[j] \in quarantined_models

\* C29 witness: the code expert, its backups and the fallback expert are
\* quarantined; the selection of three starts with the fallback expert and
\* goes on with two experts that are not quarantined, passing over the
\* quarantined enterprise expert
C29_Witness ==
    /\ call.op = "select_experts_for_query"
    /\ call.k = 3
    /\ Routed[<< call.words, call.shape >>][1] = code_model
    /\ quarantined_models =
          Range(get_backup_models(code_model)) \cup
             { code_model, fallback_model, enterprise_model }
    /\ Len(call.ret) = 3
    /\ call.ret[1] = fallback_model
    /\ call.ret[2] \notin quarantined_models
    /\ call.ret[3] \notin quarantined_models

(***************************************************************************)
(* Retrieval augmentation by the endpoint (under SpecChat).                *)
(***************************************************************************)
\* C30: the chat-completion endpoint augments the prompt of a request exactly
\* when the flag of the pair returned by route_request is true; a request
\* routed to a vision or code expert, whose flag is false, is not augmented
\* even when the caller set use_rag.
C30_AugmentsByDecision ==
    call.op = "create_chat_completion" =>
        LET routed == ChatRouted[<< << call.words, call.shape >>, call.use_rag >>] IN
        /\ call.augmented <=> routed[2]
        /\ routed[1] \in { vision_model, vision_thinking_model, code_model,
                           cost_code_model }
              => ~call.augmented

====
